---------------------------- MODULE Spec2Model ----------------------------
(***************************************************************************)
(* MmapDict (src/odin/fuel/utils.py): a single-file, memory-mapped,        *)
(* append-only key/value store.                                            *)
(*                                                                         *)
(* The file is a sequence of bytes (integers 0..255).  Positions are       *)
(* 0-based as in the code; file[i+1] is the byte at position i.            *)
(* One MmapDict instance at a time works on the one file at `path`.        *)
(***************************************************************************)
EXTENDS Integers, Sequences, FiniteSets

(***************************************************************************)
(* Bounds of the model.                                                    *)
(***************************************************************************)
\* Largest number of bytes the data region may hold; Put is not taken
\* beyond it, which caps the append-only growth of the file.
MaxData == 6

\* The auto-flush threshold of __setitem__ (48000 bytes in the code,
\* utils.py:142), scaled down so that a few small values exceed it.
FlushThreshold == 5

(***************************************************************************)
(* Program constants.                                                      *)
(***************************************************************************)
\* MmapDict.HEADER = 'mmapdict'
HEADER == <<109, 109, 97, 112, 100, 105, 99, 116>>

\* MmapDict.SIZE_BYTES
SIZE_BYTES == 48

\* Keys are one-character strings, written by their character code:
\* "a", "b".
Keys == {97, 98}

\* Python values: None, an int, and an object marshal cannot encode.
None == <<"none", 0>>
Values == {None, <<"int", 300>>, <<"obj", 0>>}

\* What a failed marshal.loads / lookup yields instead of a value.
KeyError == <<"KeyError", 0>>
EOFError == <<"EOFError", 0>>
ValueError == <<"ValueError", 0>>

(***************************************************************************)
(* Byte strings.                                                           *)
(***************************************************************************)
Min(a, b) == IF a < b THEN a ELSE b

\* Python s[a:b] for 0 <= a, clamped at the end of s.
Slice(s, a, b) == SubSeq(s, a + 1, Min(b, Len(s)))

\* The file after file.seek(pos); file.write(bytes): bytes overwrite what is
\* there, the file grows as needed, a gap past the old end reads as zeros.
WriteAt(f, pos, bytes) ==
  IF bytes = <<>> THEN f
  ELSE SubSeq(f, 1, Min(pos, Len(f)))
       \o [i \in 1..(pos - Len(f)) |-> 0]
       \o bytes
       \o SubSeq(f, pos + Len(bytes) + 1, Len(f))

(***************************************************************************)
(* Header fields: ('%48d' % n) and int(file.read(48)).                     *)
(***************************************************************************)
RECURSIVE Digits(_)
Digits(n) == IF n < 10 THEN <<48 + n>> ELSE Digits(n \div 10) \o <<48 + (n % 10)>>

\* A plausible slip: the field is formatted one column wider than it is read.
FormatFieldOneWider(n, w) ==
  LET d == Digits(n)
  IN  IF Len(d) >= w + 1 THEN d ELSE [i \in 1..(w + 1 - Len(d)) |-> 32] \o d

\* '%<w>d' % n: decimal digits right-justified in w columns, padded with
\* spaces; wider than w when n has more than w digits.
FormatField(n, w) ==
  LET d == Digits(n)
  IN  IF Len(d) >= w THEN d ELSE [i \in 1..(w - Len(d)) |-> 32] \o d

\* The number written in decimal digits at s[lo..hi].
RECURSIVE DigitsValue(_, _, _)
DigitsValue(s, lo, hi) ==
  IF hi < lo THEN 0 ELSE 10 * DigitsValue(s, lo, hi - 1) + (s[hi] - 48)

\* int(s): surrounding blanks are dropped, the rest must be decimal digits.
\* -1 stands for the ValueError int() raises (no field the code writes is
\* negative).
ParseInt(s) ==
  LET nb == {i \in 1..Len(s) : s[i] /= 32}
      lo == CHOOSE a \in nb : \A x \in nb : a <= x
      hi == CHOOSE b \in nb : \A x \in nb : x <= b
  IN  IF nb = {} THEN -1
      ELSE IF \A j \in lo..hi : s[j] >= 48 /\ s[j] <= 57
        THEN DigitsValue(s, lo, hi)
        ELSE -1

(***************************************************************************)
(* marshal.dumps / marshal.loads on the values of the model.               *)
(***************************************************************************)
Marshallable(v) == v[1] \in {"none", "int"}

\* None is 'N'; an int is 'i' and four little-endian bytes.
MarshalDumps(v) ==
  IF v[1] = "none" THEN <<78>>
  ELSE <<105, v[2] % 256, (v[2] \div 256) % 256,
         (v[2] \div 65536) % 256, (v[2] \div 16777216) % 256>>

\* Reads one value from the start of b; bytes after it are ignored.
MarshalLoads(b) ==
  IF b = <<>> THEN EOFError
  ELSE IF b[1] = 78 THEN None
  ELSE IF b[1] = 105 THEN
         IF Len(b) < 5 THEN EOFError
         ELSE <<"int", b[2] + 256 * b[3] + 65536 * b[4] + 16777216 * b[5]>>
  ELSE ValueError

(***************************************************************************)
(* cPickle.dumps / cPickle.loads of the index, an ordered dictionary       *)
(* key -> (start, size), held as a sequence of entries in insertion order. *)
(* The blob is: protocol mark 0x80 0x02, then for each entry the key byte, *)
(* 'M' and the start in two little-endian bytes, 'K' and the size in one   *)
(* byte, then the STOP opcode '.'.                                         *)
(***************************************************************************)
Entry(k, start, size) == [key |-> k, start |-> start, size |-> size]

RECURSIVE DumpEntries(_)
DumpEntries(d) ==
  IF d = <<>> THEN <<>>
  ELSE <<d[1].key, 77, d[1].start % 256, (d[1].start \div 256) % 256, 75, d[1].size % 256>>
       \o DumpEntries(Tail(d))

\* A plausible slip: the index is dumped without its order (here: reversed).
PickleDumpsReversed(d) ==
  <<128, 2>> \o DumpEntries([i \in 1..Len(d) |-> d[Len(d) + 1 - i]]) \o <<46>>

PickleDumps(d) == <<128, 2>> \o DumpEntries(d) \o <<46>>

\* Parses entries from position i (1-based) of b up to the STOP opcode.
\* A blob that ends early or holds anything else does not unpickle.
RECURSIVE LoadEntries(_, _)
LoadEntries(b, i) ==
  IF i > Len(b) THEN [ok |-> FALSE, d |-> <<>>]
  ELSE IF b[i] = 46 THEN [ok |-> TRUE, d |-> <<>>]
  ELSE IF i + 5 > Len(b) \/ b[i + 1] /= 77 \/ b[i + 4] /= 75
         THEN [ok |-> FALSE, d |-> <<>>]
  ELSE LET rest == LoadEntries(b, i + 6)
       IN  [ok |-> rest.ok,
            d  |-> IF rest.ok
                     THEN <<Entry(b[i], b[i + 2] + 256 * b[i + 3], b[i + 5])>> \o rest.d
                     ELSE <<>>]

PickleLoads(b) ==
  IF Len(b) < 3 \/ b[1] /= 128 \/ b[2] /= 2
    THEN [ok |-> FALSE, d |-> <<>>]
    ELSE LoadEntries(b, 3)

(***************************************************************************)
(* The ordered dictionary self._dict.                                      *)
(***************************************************************************)
KeysOf(d) == {d[i].key : i \in 1..Len(d)}

HasKey(d, k) == k \in KeysOf(d)

Lookup(d, k) == d[CHOOSE i \in 1..Len(d) : d[i].key = k]

\* del d[k]
RECURSIVE DelKey(_, _)
DelKey(d, k) ==
  IF d = <<>> THEN <<>>
  ELSE IF d[1].key = k THEN Tail(d)
  ELSE <<d[1]>> \o DelKey(Tail(d), k)


(***************************************************************************)
(* State.                                                                  *)
(***************************************************************************)
VARIABLES
  exists,        \* os.path.exists(path)
  file,          \* the bytes of the file at path
  st,            \* "closed": no instance; "open": an MmapDict is constructed
  read_only,     \* self.read_only
  dict,          \* self._dict: sequence of entries, in insertion order
  max_position,  \* self._max_position
  write_value,   \* self._write_value
  new_dict,      \* self._new_dict: key -> marshalled bytes
  mapLen,        \* length of self._mmap (MAP_SHARED: it shows file[1..mapLen])
  ret,           \* the last call and its outcome
  wlog,          \* history: the file.write calls the last call made in a flush
  shadow,        \* history: key -> value, the records put and not removed
  saved,         \* history: shadow as of the last completed flush
  everPut,       \* history: the keys some put has recorded
  reader         \* a second instance, read-only, of another process

vars == <<exists, file, st, read_only, dict, max_position, write_value,
          new_dict, mapLen, ret, wlog, shadow, saved, everPut, reader>>

EmptyMap == [k \in {} |-> <<>>]

MapPut(m, k, x) == [y \in DOMAIN m \cup {k} |-> IF y = k THEN x ELSE m[y]]

MapDel(m, k) == [y \in DOMAIN m \ {k} |-> m[y]]

Ret(op, k, v, r) == [op |-> op, key |-> k, val |-> v, res |-> r]

\* len(MmapDict.HEADER) + MmapDict.SIZE_BYTES * 2
HeaderSize == Len(HEADER) + SIZE_BYTES * 2

\* Files that may be at path before the first open: none, a zero-length
\* file, a file of another format ("not a").
\* no second instance is constructed
NoReader == [st |-> "closed", dict |-> <<>>, mapLen |-> 0]

InitialFiles == {[exists |-> FALSE, bytes |-> <<>>],
                 [exists |-> TRUE, bytes |-> <<>>],
                 [exists |-> TRUE, bytes |-> <<110, 111, 116, 32, 97>>]}

Init ==
  /\ \E f \in InitialFiles : exists = f.exists /\ file = f.bytes
  /\ st = "closed"
  /\ read_only = FALSE
  /\ dict = <<>>
  /\ max_position = 0
  /\ write_value = <<>>
  /\ new_dict = EmptyMap
  /\ mapLen = 0
  /\ ret = Ret("none", 0, None, "ok")
  /\ wlog = <<>>
  /\ shadow = EmptyMap
  /\ saved = EmptyMap
  /\ everPut = {}
  /\ reader = NoReader

(***************************************************************************)
(* __init: open an existing file or create a new one.                      *)
(***************************************************************************)
\* A plausible slip: the magic marker is not compared.
ReadStoreNoMagicTest(f) ==
  LET mp == ParseInt(Slice(f, Len(HEADER), Len(HEADER) + SIZE_BYTES))
      dict_size == ParseInt(Slice(f, Len(HEADER) + SIZE_BYTES, HeaderSize))
  IN  IF mp < 0 \/ dict_size < 0
        THEN [res |-> "ValueError", max_position |-> 0, dict |-> <<>>]
      ELSE LET loaded == PickleLoads(Slice(f, mp, mp + dict_size))
           IN  IF loaded.ok
                 THEN [res |-> "ok", max_position |-> mp, dict |-> loaded.d]
                 ELSE [res |-> "UnpicklingError", max_position |-> 0, dict |-> <<>>]

\* What __init reads from an existing non-empty file f.
ReadStore(f) ==
  IF Slice(f, 0, Len(HEADER)) /= HEADER
    THEN [res |-> "FormatError", max_position |-> 0, dict |-> <<>>]
  ELSE LET mp == ParseInt(Slice(f, Len(HEADER), Len(HEADER) + SIZE_BYTES))
           dict_size == ParseInt(Slice(f, Len(HEADER) + SIZE_BYTES, HeaderSize))
       IN  IF mp < 0 \/ dict_size < 0
             THEN [res |-> "ValueError", max_position |-> 0, dict |-> <<>>]
           ELSE LET loaded == PickleLoads(Slice(f, mp, mp + dict_size))
                IN  IF loaded.ok
                      THEN [res |-> "ok", max_position |-> mp, dict |-> loaded.d]
                      ELSE [res |-> "UnpicklingError", max_position |-> 0, dict |-> <<>>]

\* A plausible slip: the mark counts one header field instead of two.
NewFileShortMark ==
  HEADER \o FormatField(Len(HEADER) + SIZE_BYTES, SIZE_BYTES)
         \o FormatField(Len(PickleDumps(<<>>)), SIZE_BYTES)
         \o PickleDumps(<<>>)

\* The file __init writes when it creates the store.
NewFile ==
  HEADER \o FormatField(HeaderSize, SIZE_BYTES)
         \o FormatField(Len(PickleDumps(<<>>)), SIZE_BYTES)
         \o PickleDumps(<<>>)

\* read_only, as the last call's record keeps it
Mode(ro) == <<"read_only", IF ro THEN 1 ELSE 0>>

\* the branch of __init for a file that exists and is not empty
OpenExisting(ro) ==
  LET r == ReadStore(file)
  IN  /\ ret' = Ret("open", 0, Mode(ro), r.res)
      /\ IF r.res = "ok"
           THEN /\ st' = "open"
                /\ read_only' = ro
                /\ dict' = r.dict
                /\ max_position' = r.max_position
                /\ mapLen' = Len(file)
                /\ write_value' = <<>>
                /\ new_dict' = EmptyMap
                /\ shadow' = saved
           ELSE UNCHANGED <<st, read_only, dict, max_position, mapLen,
                            write_value, new_dict, shadow>>
      /\ wlog' = <<>>
      /\ UNCHANGED <<exists, file, saved>>

\* A plausible slip: the read-only test is missing, the file is created.
OpenMissingCreates(ro) ==
  /\ ret' = Ret("open", 0, Mode(ro), "ok")
  /\ exists' = TRUE
  /\ file' = NewFile
  /\ st' = "open"
  /\ read_only' = ro
  /\ dict' = <<>>
  /\ max_position' = HeaderSize
  /\ mapLen' = Len(NewFile)
  /\ write_value' = <<>>
  /\ new_dict' = EmptyMap
  /\ shadow' = EmptyMap
  /\ saved' = EmptyMap
  /\ wlog' = <<>>

\* the branch of __init for a file that is missing or empty
OpenMissing(ro) ==
  IF ro
    THEN /\ ret' = Ret("open", 0, Mode(ro), "NotFoundError")
         /\ UNCHANGED <<exists, file, st, read_only, dict, max_position,
                        write_value, new_dict, mapLen, shadow, saved>>
         /\ wlog' = <<>>
    ELSE /\ ret' = Ret("open", 0, Mode(ro), "ok")
         /\ exists' = TRUE
         /\ file' = NewFile
         /\ st' = "open"
         /\ read_only' = ro
         /\ dict' = <<>>
         /\ max_position' = HeaderSize
         /\ mapLen' = Len(NewFile)
         /\ write_value' = <<>>
         /\ new_dict' = EmptyMap
         /\ shadow' = EmptyMap
         /\ saved' = EmptyMap
         /\ wlog' = <<>>

\* A plausible slip: only os.path.exists is tested, not the size.
OpenIgnoresSize(ro) ==
  /\ st = "closed"
  /\ IF exists THEN OpenExisting(ro) ELSE OpenMissing(ro)

Open(ro) ==
  /\ st = "closed"
  /\ IF exists /\ Len(file) > 0 THEN OpenExisting(ro) ELSE OpenMissing(ro)

(***************************************************************************)
(* flush: the file.write calls it makes, in the order it makes them.       *)
(***************************************************************************)
\* old_position = int(file.read(SIZE_BYTES)) after file.seek(len(HEADER))
OldPosition(f) == ParseInt(Slice(f, Len(HEADER), Len(HEADER) + SIZE_BYTES))

\* A plausible slip: the buffered bytes are not written.
FlushWritesNoData(f, d, mp, wv) ==
  LET old_position == OldPosition(f)
      hwm  == FormatField(mp, SIZE_BYTES)
      blob == PickleDumps(d)
      len  == FormatField(Len(blob), SIZE_BYTES)
  IN  << [kind |-> "hwm",   pos |-> Len(HEADER),             bytes |-> hwm],
         [kind |-> "len",   pos |-> Len(HEADER) + Len(hwm),  bytes |-> len],
         [kind |-> "data",  pos |-> old_position,            bytes |-> <<>>],
         [kind |-> "index", pos |-> old_position + Len(wv),  bytes |-> blob] >>

\* A plausible slip: the header keeps the old high-water mark.
FlushWritesStaleMark(f, d, mp, wv) ==
  LET old_position == OldPosition(f)
      hwm  == FormatField(old_position, SIZE_BYTES)
      blob == PickleDumps(d)
      len  == FormatField(Len(blob), SIZE_BYTES)
  IN  << [kind |-> "hwm",   pos |-> Len(HEADER),             bytes |-> hwm],
         [kind |-> "len",   pos |-> Len(HEADER) + Len(hwm),  bytes |-> len],
         [kind |-> "data",  pos |-> old_position,            bytes |-> wv],
         [kind |-> "index", pos |-> old_position + Len(wv),  bytes |-> blob] >>

\* A plausible slip: the buffered bytes go to the start of the data region.
FlushWritesRewind(f, d, mp, wv) ==
  LET old_position == OldPosition(f)
      hwm  == FormatField(mp, SIZE_BYTES)
      blob == PickleDumps(d)
      len  == FormatField(Len(blob), SIZE_BYTES)
  IN  << [kind |-> "hwm",   pos |-> Len(HEADER),             bytes |-> hwm],
         [kind |-> "len",   pos |-> Len(HEADER) + Len(hwm),  bytes |-> len],
         [kind |-> "data",  pos |-> HeaderSize,              bytes |-> wv],
         [kind |-> "index", pos |-> old_position + Len(wv),  bytes |-> blob] >>

\* A plausible slip: the index written is the file's old index merged with
\* the in-memory one, so a removed key is never dropped.
FlushWritesMergesIndex(f, d, mp, wv) ==
  LET old_position == OldPosition(f)
      hwm  == FormatField(mp, SIZE_BYTES)
      old  == IF ReadStore(f).res = "ok" THEN ReadStore(f).dict ELSE <<>>
      Gone(e) == ~HasKey(d, e.key)
      blob == PickleDumps(SelectSeq(old, Gone) \o d)
      len  == FormatField(Len(blob), SIZE_BYTES)
  IN  << [kind |-> "hwm",   pos |-> Len(HEADER),             bytes |-> hwm],
         [kind |-> "len",   pos |-> Len(HEADER) + Len(hwm),  bytes |-> len],
         [kind |-> "data",  pos |-> old_position,            bytes |-> wv],
         [kind |-> "index", pos |-> old_position + Len(wv),  bytes |-> blob] >>

FlushWrites(f, d, mp, wv) ==
  LET old_position == OldPosition(f)
      hwm  == FormatField(mp, SIZE_BYTES)
      blob == PickleDumps(d)
      len  == FormatField(Len(blob), SIZE_BYTES)
  IN  << [kind |-> "hwm",   pos |-> Len(HEADER),             bytes |-> hwm],
         [kind |-> "len",   pos |-> Len(HEADER) + Len(hwm),  bytes |-> len],
         [kind |-> "data",  pos |-> old_position,            bytes |-> wv],
         [kind |-> "index", pos |-> old_position + Len(wv),  bytes |-> blob] >>

\* The file after the first n of the writes ws.
RECURSIVE ApplyWrites(_, _, _)
ApplyWrites(f, ws, n) ==
  IF n = 0 THEN f
  ELSE WriteAt(ApplyWrites(f, ws, n - 1), ws[n].pos, ws[n].bytes)

WriteLog(ws, n) == [i \in 1..n |-> [kind |-> ws[i].kind, len |-> Len(ws[i].bytes)]]

\* A plausible slip: the pending overlay is not reset.
FlushEffectKeepsOverlay(d, mp, wv) ==
  LET ws == FlushWrites(file, d, mp, wv)
      f2 == ApplyWrites(file, ws, Len(ws))
  IN  /\ file' = f2
      /\ mapLen' = Len(f2)
      /\ dict' = d
      /\ max_position' = OldPosition(file) + Len(wv)
      /\ write_value' = <<>>
      /\ new_dict' = new_dict
      /\ wlog' = WriteLog(ws, Len(ws))

\* A plausible slip: the in-memory mark is set back to the old position.
FlushEffectMarkNotAdvanced(d, mp, wv) ==
  LET ws == FlushWrites(file, d, mp, wv)
      f2 == ApplyWrites(file, ws, Len(ws))
  IN  /\ file' = f2
      /\ mapLen' = Len(f2)
      /\ dict' = d
      /\ max_position' = OldPosition(file)
      /\ write_value' = <<>>
      /\ new_dict' = EmptyMap
      /\ wlog' = WriteLog(ws, Len(ws))

\* A flush that runs to its end on the in-memory state (d, mp, wv).
FlushEffect(d, mp, wv) ==
  LET ws == FlushWrites(file, d, mp, wv)
      f2 == ApplyWrites(file, ws, Len(ws))
  IN  /\ file' = f2
      /\ mapLen' = Len(f2)
      /\ dict' = d
      /\ max_position' = OldPosition(file) + Len(wv)
      /\ write_value' = <<>>
      /\ new_dict' = EmptyMap
      /\ wlog' = WriteLog(ws, Len(ws))

\* A plausible slip: the read-only test is missing.
FlushUnchecked ==
  /\ st = "open"
  /\ FlushEffect(dict, max_position, write_value)
  /\ ret' = Ret("flush", 0, None, "ok")
  /\ saved' = shadow
  /\ UNCHANGED <<exists, st, read_only, shadow>>

\* A plausible slip: flush returns at once when the buffer is empty.
FlushSkipsWhenIdle ==
  /\ st = "open"
  /\ IF read_only
       THEN /\ ret' = Ret("flush", 0, None, "ReadOnlyError")
            /\ UNCHANGED <<exists, file, st, read_only, dict, max_position,
                           write_value, new_dict, mapLen, shadow, saved>>
            /\ wlog' = <<>>
     ELSE IF write_value = <<>>
       THEN /\ ret' = Ret("flush", 0, None, "ok")
            /\ UNCHANGED <<exists, file, st, read_only, dict, max_position,
                           write_value, new_dict, mapLen, shadow, saved>>
            /\ wlog' = <<>>
       ELSE /\ FlushEffect(dict, max_position, write_value)
            /\ ret' = Ret("flush", 0, None, "ok")
            /\ saved' = shadow
            /\ UNCHANGED <<exists, st, read_only, shadow>>

Flush ==
  /\ st = "open"
  /\ IF read_only
       THEN /\ ret' = Ret("flush", 0, None, "ReadOnlyError")
            /\ UNCHANGED <<exists, file, st, read_only, dict, max_position,
                           write_value, new_dict, mapLen, shadow, saved>>
            /\ wlog' = <<>>
       ELSE /\ FlushEffect(dict, max_position, write_value)
            /\ ret' = Ret("flush", 0, None, "ok")
            /\ saved' = shadow
            /\ UNCHANGED <<exists, st, read_only, shadow>>

(***************************************************************************)
(* close.  The closed instance is used no more: its fields are dropped.    *)
(***************************************************************************)
Dropped ==
  /\ st' = "closed"
  /\ dict' = <<>>
  /\ max_position' = 0
  /\ write_value' = <<>>
  /\ new_dict' = EmptyMap
  /\ mapLen' = 0

\* A plausible slip: close() flushes whatever the mode.
CloseAlwaysFlush ==
  /\ st = "open"
  /\ ret' = Ret("close", 0, None, "ok")
  /\ Dropped
  /\ LET ws == FlushWrites(file, dict, max_position, write_value)
     IN  /\ file' = ApplyWrites(file, ws, Len(ws))
         /\ wlog' = WriteLog(ws, Len(ws))
         /\ saved' = shadow
         /\ UNCHANGED <<exists, read_only, shadow>>

\* A plausible slip: close() only releases the mapping and the handle.
CloseNoFlush ==
  /\ st = "open"
  /\ ret' = Ret("close", 0, None, "ok")
  /\ Dropped
  /\ wlog' = <<>>
  /\ saved' = shadow
  /\ UNCHANGED <<exists, file, read_only, shadow>>

Close ==
  /\ st = "open"
  /\ ret' = Ret("close", 0, None, "ok")
  /\ Dropped
  /\ IF ~read_only
       THEN LET ws == FlushWrites(file, dict, max_position, write_value)
            IN  /\ file' = ApplyWrites(file, ws, Len(ws))
                /\ wlog' = WriteLog(ws, Len(ws))
                /\ saved' = shadow
                /\ UNCHANGED <<exists, read_only, shadow>>
       ELSE /\ shadow' = saved
            /\ wlog' = <<>>
            /\ UNCHANGED <<exists, file, read_only, saved>>

(***************************************************************************)
(* Dictionary methods.                                                     *)
(***************************************************************************)
\* self._mmap.seek(start); self._mmap.read(size)
MmapRead(start, size) == Slice(file, start, Min(start + size, mapLen))

\* A plausible slip: the overlay is not consulted.
GetMappedOnly(k) ==
  IF ~HasKey(dict, k) THEN KeyError
  ELSE LET e == Lookup(dict, k)
       IN  IF e.start > mapLen THEN ValueError
           ELSE MarshalLoads(MmapRead(e.start, e.size))

\* A plausible slip: a missing key answers None, as dict.get does.
GetOrNone(k) ==
  IF k \in DOMAIN new_dict THEN MarshalLoads(new_dict[k])
  ELSE IF ~HasKey(dict, k) THEN None
  ELSE LET e == Lookup(dict, k)
       IN  IF e.start > mapLen THEN ValueError
           ELSE MarshalLoads(MmapRead(e.start, e.size))

\* __getitem__
Get(k) ==
  IF k \in DOMAIN new_dict THEN MarshalLoads(new_dict[k])
  ELSE IF ~HasKey(dict, k) THEN KeyError
  ELSE LET e == Lookup(dict, k)
       IN  IF e.start > mapLen THEN ValueError
           ELSE MarshalLoads(MmapRead(e.start, e.size))

\* __contains__
Contains(k) == HasKey(dict, k)

\* __len__
Length == Len(dict)

GetItem(k) ==
  /\ st = "open"
  /\ ret' = Ret("get", k, Get(k), IF Get(k) = KeyError THEN "KeyNotFoundError" ELSE "ok")
  /\ UNCHANGED <<exists, file, st, read_only, dict, max_position, write_value,
                 new_dict, mapLen, shadow, saved>>
  /\ wlog' = <<>>

\* A plausible slip: only the keys already flushed count as present.
IsDuplicateFlushedOnly(k) == HasKey(dict, k) /\ k \notin DOMAIN new_dict

\* A plausible slip: only the pending overlay is looked at.
IsDuplicatePendingOnly(k) == k \in DOMAIN new_dict

\* A plausible slip: a key left in the overlay counts as present too.
IsDuplicateOrPending(k) == HasKey(dict, k) \/ k \in DOMAIN new_dict

\* `key in self._dict`, the test __setitem__ starts with
IsDuplicate(k) == HasKey(dict, k)

\* A plausible slip: the entry's length is one too long.
NewEntryLong(k, value) == Entry(k, max_position, Len(value) + 1)

\* A plausible slip: the offset leaves out the bytes already buffered.
NewEntryAtHeaderMark(k, value) == Entry(k, OldPosition(file), Len(value))

\* self._dict[key] = (self._max_position, len(value))
NewEntry(k, value) == Entry(k, max_position, Len(value))

\* A plausible slip: the test is >= instead of >.
OverThresholdInclusive(wv) == Len(wv) >= FlushThreshold

\* len(self._write_value) > 48000
OverThreshold(wv) == Len(wv) > FlushThreshold

\* __setitem__
Put(k, v) ==
  /\ st = "open"
  /\ IF IsDuplicate(k)
       THEN /\ ret' = Ret("put", k, None, "DuplicateKeyError")
            /\ UNCHANGED <<exists, file, st, read_only, dict, max_position,
                           write_value, new_dict, mapLen, shadow, saved>>
            /\ wlog' = <<>>
     ELSE IF ~Marshallable(v)
       THEN /\ ret' = Ret("put", k, v, "ValueKindError")
            /\ UNCHANGED <<exists, file, st, read_only, dict, max_position,
                           write_value, new_dict, mapLen, shadow, saved>>
            /\ wlog' = <<>>
     ELSE LET value == MarshalDumps(v)
              d1  == Append(dict, NewEntry(k, value))
              mp1 == max_position + Len(value)
              wv1 == write_value \o value
              nd1 == MapPut(new_dict, k, value)
          IN  /\ mp1 - HeaderSize <= MaxData
              /\ IF ~OverThreshold(wv1)
                   THEN /\ ret' = Ret("put", k, v, "ok")
                        /\ dict' = d1
                        /\ max_position' = mp1
                        /\ write_value' = wv1
                        /\ new_dict' = nd1
                        /\ shadow' = MapPut(shadow, k, v)
                        /\ wlog' = <<>>
                        /\ UNCHANGED <<exists, file, st, read_only, mapLen, saved>>
                 ELSE IF read_only
                   \* self.flush() raises; the assignments above it stay
                   THEN /\ ret' = Ret("put", k, v, "ReadOnlyError")
                        /\ dict' = d1
                        /\ max_position' = mp1
                        /\ write_value' = wv1
                        /\ new_dict' = nd1
                        /\ wlog' = <<>>
                        /\ UNCHANGED <<exists, file, st, read_only, mapLen,
                                       shadow, saved>>
                 ELSE /\ ret' = Ret("put", k, v, "ok")
                      /\ FlushEffect(d1, mp1, wv1)
                      /\ shadow' = MapPut(shadow, k, v)
                      /\ saved' = MapPut(shadow, k, v)
                      /\ UNCHANGED <<exists, st, read_only>>

\* A plausible slip: removing the record buffered last gives its bytes back.
RemoveReclaims(k) ==
  /\ st = "open"
  /\ IF HasKey(dict, k)
       THEN /\ ret' = Ret("remove", k, None, "ok")
            /\ dict' = DelKey(dict, k)
            /\ shadow' = MapDel(shadow, k)
            /\ LET e == Lookup(dict, k)
               IN  IF e.start >= OldPosition(file) /\ e.start + e.size = max_position
                     THEN /\ max_position' = e.start
                          /\ write_value' =
                               SubSeq(write_value, 1, Len(write_value) - e.size)
                     ELSE UNCHANGED <<max_position, write_value>>
       ELSE /\ ret' = Ret("remove", k, None, "KeyNotFoundError")
            /\ UNCHANGED <<dict, shadow, max_position, write_value>>
  /\ UNCHANGED <<exists, file, st, read_only, new_dict, mapLen, saved>>
  /\ wlog' = <<>>

\* __delitem__
Remove(k) ==
  /\ st = "open"
  /\ IF HasKey(dict, k)
       THEN /\ ret' = Ret("remove", k, None, "ok")
            /\ dict' = DelKey(dict, k)
            /\ shadow' = MapDel(shadow, k)
       ELSE /\ ret' = Ret("remove", k, None, "KeyNotFoundError")
            /\ UNCHANGED <<dict, shadow>>
  /\ UNCHANGED <<exists, file, st, read_only, max_position, write_value,
                 new_dict, mapLen, saved>>
  /\ wlog' = <<>>

(***************************************************************************)
(* A flush cut short: the process dies, or a write fails and the instance  *)
(* is abandoned, when the first n of the four file.write calls have        *)
(* reached the file.  The two header fields sit in the handle's buffer     *)
(* until file.seek(old_position) and reach the file together, so n is 0,   *)
(* 2 or 3.                                                                 *)
(***************************************************************************)
CrashPoints == {0, 2, 3}

Interrupted(d, mp, wv, n) ==
  LET ws == FlushWrites(file, d, mp, wv)
  IN  /\ file' = ApplyWrites(file, ws, n)
      /\ wlog' = WriteLog(ws, n)
      /\ Dropped
      /\ ret' = Ret("crash", n, None, "crash")
      /\ shadow' = saved
      /\ UNCHANGED <<exists, read_only, saved>>

\* in flush() or in the flush of close()
CrashInFlush ==
  /\ st = "open"
  /\ ~read_only
  /\ \E n \in CrashPoints : Interrupted(dict, max_position, write_value, n)

\* The keys put so far, after a call: a put that got as far as recording its
\* entry, whether it returned or raised in the flush after it, adds its key.
Recorded ==
  everPut' = IF ret'.op = "put" /\ ret'.res \in {"ok", "ReadOnlyError"}
               THEN everPut \cup {ret'.key}
               ELSE everPut

Next ==
  \/ (\E ro \in BOOLEAN : Open(ro)) /\ UNCHANGED <<everPut, reader>>
  \/ (\E k \in Keys : GetItem(k)) /\ UNCHANGED <<everPut, reader>>
  \/ (\E k \in Keys, v \in Values : Put(k, v)) /\ Recorded /\ UNCHANGED reader
  \/ (\E k \in Keys : Remove(k)) /\ UNCHANGED <<everPut, reader>>
  \/ Flush /\ UNCHANGED <<everPut, reader>>
  \/ Close /\ UNCHANGED <<everPut, reader>>
  \/ CrashInFlush /\ UNCHANGED <<everPut, reader>>

Spec == Init /\ [][Next]_vars

(***************************************************************************)
(* A reader: a second process constructs MmapDict(path, read_only=True)    *)
(* on the file while the first process, the writer, holds the mutable      *)
(* instance.  The reader's mapping is MAP_SHARED, so it shows the file's   *)
(* present bytes up to the length the file had when it was mapped.         *)
(***************************************************************************)
\* __init of the reader; it raises, and constructs nothing, on a file that is
\* missing, empty or does not read back
ReaderOpen ==
  /\ reader.st = "closed"
  /\ exists /\ Len(file) > 0
  /\ ReadStore(file).res = "ok"
  /\ reader' = [st |-> "open", dict |-> ReadStore(file).dict, mapLen |-> Len(file)]
  /\ UNCHANGED <<exists, file, st, read_only, dict, max_position, write_value,
                 new_dict, mapLen, ret, wlog, shadow, saved, everPut>>

\* close() of the reader: read_only, so no flush
ReaderClose ==
  /\ reader.st = "open"
  /\ reader' = NoReader
  /\ UNCHANGED <<exists, file, st, read_only, dict, max_position, write_value,
                 new_dict, mapLen, ret, wlog, shadow, saved, everPut>>

\* __getitem__ of the reader r when the file holds f
ReaderGetIn(r, f, k) ==
  IF ~HasKey(r.dict, k) THEN KeyError
  ELSE LET e == Lookup(r.dict, k)
       IN  IF e.start > r.mapLen THEN ValueError
           ELSE MarshalLoads(Slice(f, e.start, Min(e.start + e.size, r.mapLen)))

ReaderGet(k) == ReaderGetIn(reader, file, k)

NextReader ==
  \/ Open(FALSE) /\ UNCHANGED <<everPut, reader>>
  \/ (\E k \in Keys, v \in Values : Put(k, v)) /\ Recorded /\ UNCHANGED reader
  \/ (\E k \in Keys : Remove(k)) /\ UNCHANGED <<everPut, reader>>
  \/ Flush /\ UNCHANGED <<everPut, reader>>
  \/ Close /\ UNCHANGED <<everPut, reader>>
  \/ ReaderOpen
  \/ ReaderClose

SpecReader == Init /\ [][NextReader]_vars

(***************************************************************************)
(* What a fresh instance opened on the file f would read.                  *)
(***************************************************************************)
\* get(k) of an instance that has just opened f (its mapping is all of f)
DiskGet(f, k) ==
  LET r == ReadStore(f)
  IN  IF r.res /= "ok" THEN <<r.res, 0>>
      ELSE IF ~HasKey(r.dict, k) THEN KeyError
      ELSE LET e == Lookup(r.dict, k)
           IN  IF e.start > Len(f) THEN ValueError
               ELSE MarshalLoads(Slice(f, e.start, e.start + e.size))

\* The header values, the keys in order and the values a reopen of f sees.
Recovered(f) ==
  LET r == ReadStore(f)
  IN  [res          |-> r.res,
       max_position |-> r.max_position,
       dict_size    |-> ParseInt(Slice(f, Len(HEADER) + SIZE_BYTES, HeaderSize)),
       keys         |-> [i \in 1..Len(r.dict) |-> r.dict[i].key],
       values       |-> [k \in KeysOf(r.dict) |-> DiskGet(f, k)]]

\* The file once the flush of the current in-memory state has completed.
FlushedFile ==
  ApplyWrites(file, FlushWrites(file, dict, max_position, write_value), 4)

(***************************************************************************)
(* Claims.                                                                 *)
(***************************************************************************)

\* C1: a flush cut short after any prefix of its file writes leaves a file
\* that reopens without error and shows exactly the state before the flush
\* or exactly the state after it.
C1_InterruptedFlushIsAtomic ==
  [][ret'.op = "crash" =>
       /\ Recovered(file').res = "ok"
       /\ Recovered(file') \in {Recovered(file), Recovered(FlushedFile)}]_vars

\* C2: within every flush the buffered record bytes are written first, the
\* index blob second, and the two header fields last.
C2_HeaderWrittenLast ==
  \A i, j \in 1..Len(wlog) :
    /\ (wlog[i].kind \in {"hwm", "len"} /\ wlog[j].kind \in {"data", "index"}) => j < i
    /\ (wlog[i].kind = "data" /\ wlog[j].kind = "index") => i < j

\* C3: a read-only instance opened on the file shows the records that were
\* put and flushed before the store was closed: len() is their number,
\* get(k) is the value put for each of them, contains(z) is false for any
\* other key.
C3_PersistenceAcrossReopen ==
  (st = "open" /\ read_only /\ ret.op = "open") =>
    /\ Length = Cardinality(DOMAIN saved)
    /\ \A k \in Keys :
         IF k \in DOMAIN saved
           THEN Contains(k) /\ Get(k) = saved[k]
           ELSE ~Contains(k)

C3_Witness ==
  /\ st = "open" /\ read_only /\ ret.op = "open"
  /\ Length = 2
  /\ \E k1, k2 \in Keys : Get(k1) = None /\ Get(k2) = <<"int", 300>>

\* C4: right after a successful put(k, v), get(k) returns v; when the put
\* made no flush the value is served from the pending overlay.
C4_ReadYourWrite ==
  (st = "open" /\ ret.op = "put" /\ ret.res = "ok") =>
    /\ Get(ret.key) = ret.val
    /\ wlog = <<>> => ret.key \in DOMAIN new_dict

C4_Witness ==
  /\ st = "open" /\ ~read_only /\ ret.op = "put" /\ ret.res = "ok"
  /\ wlog = <<>>
  /\ ret.val = <<"int", 300>>
  /\ Len(dict) = 1

\* C5: put(k, v2) for a key the store contains, flushed or still pending,
\* fails with DuplicateKeyError and leaves get(k), the index, the write
\* buffer, the high-water mark and the file as they were.
C5_DuplicateRejected ==
  [][\A k \in Keys :
       (st = "open" /\ ret'.op = "put" /\ ret'.key = k /\ k \in KeysOf(dict)) =>
          /\ ret'.res = "DuplicateKeyError"
          /\ Get(k)' = Get(k)
          /\ UNCHANGED <<dict, write_value, max_position, new_dict, file, mapLen>>]_vars

C5_Witness ==
  /\ st = "open" /\ ~read_only
  /\ ret.op = "put" /\ ret.res = "DuplicateKeyError"
  /\ ret.key \in DOMAIN new_dict
  /\ \E k \in Keys : k /= ret.key /\ Contains(k) /\ k \notin DOMAIN new_dict

\* C6: on an instance opened read-only every put fails with ReadOnlyError.
C6_PutRejectedWhenReadOnly ==
  (st = "open" /\ read_only /\ ret.op = "put") => ret.res = "ReadOnlyError"

\* C7: on an instance opened read-only flush() fails with ReadOnlyError and
\* does nothing: no file write, the mapping, the index and the buffers stay.
C7_FlushRejectedWhenReadOnly ==
  [][(st = "open" /\ read_only /\ ret'.op = "flush") =>
       /\ ret'.res = "ReadOnlyError"
       /\ wlog' = <<>>
       /\ UNCHANGED <<exists, file, mapLen, st, dict, max_position,
                      write_value, new_dict>>]_vars

C7_Witness ==
  /\ st = "open" /\ read_only
  /\ ret.op = "flush" /\ ret.res = "ReadOnlyError"
  /\ Len(dict) > 0

\* C8: no call on an instance opened read-only changes the file.
C8_ReadOnlyNeverWrites ==
  [][(st = "open" /\ read_only) => (file' = file /\ exists' = exists)]_vars

C8_Witness ==
  /\ st = "open" /\ read_only
  /\ ret.op = "flush"
  /\ write_value /= <<>>
  /\ Len(dict) < Cardinality(DOMAIN new_dict) + Cardinality(DOMAIN saved)

\* C9: a put that fails, for whatever reason, records nothing: the index,
\* the pending overlay, the write buffer and the buffered high-water mark
\* are as before the call.
C9_FailedPutRecordsNothing ==
  [][(st = "open" /\ ret'.op = "put" /\ ret'.res /= "ok") =>
       UNCHANGED <<dict, new_dict, write_value, max_position>>]_vars

\* C10: close() of a mutable instance flushes: every key the store contains
\* at close, flushed or still pending, reads after a reopen as it read
\* before the close; close() of a read-only instance makes no file write.
C10_CloseFlushes ==
  [][\A k \in Keys :
       (st = "open" /\ ret'.op = "close") =>
          IF read_only
            THEN file' = file /\ wlog' = <<>>
            ELSE /\ Len(wlog') = 4
                 /\ ReadStore(file').res = "ok"
                 /\ Contains(k) => DiskGet(file', k) = Get(k)
                 /\ ~Contains(k) => DiskGet(file', k) = KeyError]_vars

C10_Witness ==
  /\ st = "closed" /\ ~read_only /\ ret.op = "close"
  /\ Len(wlog) = 4
  /\ wlog[3].len > 1
  /\ Cardinality(DOMAIN saved) = 2

\* C11: after remove(k) has succeeded, contains(k) is false and get(k) fails
\* with KeyNotFoundError, for a flushed key and for a key that is only pending.
C11_RemoveFromEitherLayer ==
  (st = "open" /\ ret.op = "remove" /\ ret.res = "ok") =>
    /\ ~Contains(ret.key)
    /\ Get(ret.key) = KeyError

\* C12: on a mutable store a put that leaves more than the threshold in the
\* buffer runs a complete flush before it returns (the header's high-water
\* mark advances to the in-memory one, the file reads back, the buffer is
\* empty); a put that leaves the buffer at or below the threshold writes
\* nothing to the file; so after every call the buffer of a mutable store
\* holds at most the threshold.
C12_ThresholdAutoFlush ==
  [][/\ (st = "open" /\ ~read_only /\ ret'.op = "put" /\ ret'.res = "ok") =>
          IF Len(write_value) + Len(MarshalDumps(ret'.val)) > FlushThreshold
            THEN /\ Len(wlog') = 4
                 /\ write_value' = <<>>
                 /\ new_dict' = EmptyMap
                 /\ OldPosition(file') > OldPosition(file)
                 /\ OldPosition(file') = max_position'
                 /\ ReadStore(file').res = "ok"
                 /\ DiskGet(file', ret'.key) = ret'.val
            ELSE /\ file' = file
                 /\ wlog' = <<>>
                 /\ Len(write_value') =
                      Len(write_value) + Len(MarshalDumps(ret'.val))
     /\ (st' = "open" /\ ~read_only') => Len(write_value') <= FlushThreshold]_vars

C12_Witness ==
  /\ st = "open" /\ ~read_only
  /\ ret.op = "put" /\ ret.res = "ok"
  /\ Len(wlog) = 4
  /\ wlog[3].len = FlushThreshold + 1
  /\ write_value = <<>>

\* C13: the high-water mark only increases.  No step lowers the mark in the
\* file's header; no call on an open instance lowers the in-memory mark; the
\* owner's close leaves in the header at least the in-memory mark, and an open
\* starts from the header's mark, so the mark does not fall across a close
\* and reopen of the mutable handle either.
C13_HighWaterMarkOnlyIncreases ==
  [][/\ OldPosition(file') >= OldPosition(file)
     /\ (st = "open" /\ st' = "open") => max_position' >= max_position
     /\ (st = "open" /\ ~read_only /\ ret'.op = "close") =>
          OldPosition(file') >= max_position
     /\ (st = "closed" /\ st' = "open") =>
          /\ max_position' >= OldPosition(file)
          /\ max_position' = OldPosition(file')]_vars

C13_Witness ==
  /\ st = "open" /\ ~read_only
  /\ ret.op = "open" /\ ret.res = "ok"
  /\ max_position > HeaderSize + 1
  /\ Len(dict) = 1

\* C14: the data region is append-only.  No step changes a file byte between
\* the end of the header and the header's high-water mark; so the bytes of
\* every entry of the persisted index stay where they are and as they are.
C14_AppendOnlyData ==
  [][/\ \A i \in (HeaderSize + 1)..Min(OldPosition(file), Len(file)) :
          i <= Len(file') /\ file'[i] = file[i]
     /\ ReadStore(file).res = "ok" =>
          \A j \in 1..Len(ReadStore(file).dict) :
            LET e == ReadStore(file).dict[j]
            IN  Slice(file', e.start, e.start + e.size) =
                  Slice(file, e.start, e.start + e.size)]_vars

C14_Witness ==
  /\ ret.op \in {"flush", "put"}
  /\ Len(wlog) = 4
  /\ wlog[3].len > 0
  /\ OldPosition(file) - wlog[3].len > HeaderSize
  /\ Len(ReadStore(file).dict) = 2

\* The index kept in the file f, when f reads back; else the empty index.
PersistedIndex(f) == IF ReadStore(f).res = "ok" THEN ReadStore(f).dict ELSE <<>>

\* C15: in every state where the file reads back, every entry of the index
\* persisted in it starts at or after the end of the header and ends at or
\* before the header's high-water mark.
C15_PersistedEntriesInBounds ==
  \A j \in 1..Len(PersistedIndex(file)) :
    LET e == PersistedIndex(file)[j]
    IN  /\ e.start >= HeaderSize
        /\ e.start + e.size <= OldPosition(file)

C15_Witness ==
  /\ st = "open"
  /\ Len(PersistedIndex(file)) = 2
  /\ PersistedIndex(file)[2].start + PersistedIndex(file)[2].size = OldPosition(file)
  /\ PersistedIndex(file)[1].start = HeaderSize
  /\ write_value /= <<>>

\* C16 as stated: in every state of an open store the key set of the index
\* persisted in the file and the key set of the pending overlay are disjoint.
C16_PersistedAndPendingDisjoint ==
  st = "open" => KeysOf(PersistedIndex(file)) \cap DOMAIN new_dict = {}

\* C16, amended: a key is in the index persisted in the file and in the
\* pending overlay only when its persisted entry is no longer in the
\* in-memory index, that is after remove of the persisted key and put of the
\* same key, until the next flush.
C16_DisjointUnlessRemoved ==
  st = "open" =>
    \A k \in KeysOf(PersistedIndex(file)) \cap DOMAIN new_dict :
      \A i \in 1..Len(dict) : dict[i] /= Lookup(PersistedIndex(file), k)

C16_Witness ==
  /\ st = "open" /\ ~read_only
  /\ ret.op = "put" /\ ret.res = "ok"
  /\ ret.key \in KeysOf(PersistedIndex(file)) \cap DOMAIN new_dict
  /\ Contains(ret.key)
  /\ Len(dict) = 2

\* keys(shuffle=False): self._dict.keys(), the keys in the index's order
KeysInOrder == [i \in 1..Len(dict) |-> dict[i].key]

\* C17: keys(shuffle=false) lists the keys in insertion order, the flushed
\* ones before the pending ones (a later put has a larger offset); a flush
\* leaves the list as it is, close writes it to the file as it is and an open
\* reads it from the file as it is.
C17_KeysInInsertionOrder ==
  [][/\ st' = "open" =>
          /\ \A i, j \in 1..Len(dict') :
               i < j => /\ dict'[i].start < dict'[j].start
                        /\ dict'[i].key \in DOMAIN new_dict' =>
                             dict'[j].key \in DOMAIN new_dict'
          /\ (ret'.op = "put" /\ ret'.res = "ok" /\ st = "open") =>
               KeysInOrder' = Append(KeysInOrder, ret'.key)
     /\ (st = "open" /\ ret'.op = "flush") => KeysInOrder' = KeysInOrder
     /\ (st = "open" /\ ~read_only /\ ret'.op = "close") =>
          Recovered(file').keys = KeysInOrder
     /\ (st = "closed" /\ st' = "open") => KeysInOrder' = Recovered(file').keys]_vars

C17_Witness ==
  /\ st = "open" /\ read_only
  /\ ret.op = "open" /\ ret.res = "ok"
  /\ KeysInOrder = <<98, 97>>

(***************************************************************************)
(* keys and iteritems with shuffle.  RNG_GENERATOR.shuffle reorders the    *)
(* list in place; an outcome p of the generator is the order it leaves.    *)
(***************************************************************************)
RngOutcomes(n) == {p \in [1..n -> 1..n] : \A i, j \in 1..n : p[i] = p[j] => i = j}

\* RNG_GENERATOR.shuffle(k), with outcome p
Shuffle(s, p) == [i \in 1..Len(s) |-> s[p[i]]]

\* A plausible slip: only the flushed keys are shuffled and returned.
KeysOfFlushedWhenShuffled(shuffle, p) ==
  IF shuffle
    THEN LET n == Cardinality({i \in 1..Len(dict) : dict[i].key \notin DOMAIN new_dict})
         IN  SubSeq(KeysInOrder, 1, n)
    ELSE KeysInOrder

\* keys(shuffle)
KeysCall(shuffle, p) == IF shuffle THEN Shuffle(KeysInOrder, p) ELSE KeysInOrder

\* A plausible slip: the value is always read through the mapping.
ItemOfMappedOnly(e) ==
  <<e.key, IF e.start > mapLen THEN ValueError
           ELSE MarshalLoads(MmapRead(e.start, e.size))>>

\* the pair iteritems yields for the index entry e
ItemOf(e) ==
  <<e.key, IF e.key \in DOMAIN new_dict THEN MarshalLoads(new_dict[e.key])
           ELSE IF e.start > mapLen THEN ValueError
           ELSE MarshalLoads(MmapRead(e.start, e.size))>>

\* items(shuffle)
ItemsCall(shuffle, p) ==
  LET it == IF shuffle THEN Shuffle(dict, p) ELSE dict
  IN  [i \in 1..Len(it) |-> ItemOf(it[i])]

\* a and b hold the same elements, each as many times
IsPermutation(a, b) ==
  /\ Len(a) = Len(b)
  /\ \A i \in 1..Len(b) :
       Cardinality({j \in 1..Len(a) : a[j] = b[i]}) =
         Cardinality({j \in 1..Len(b) : b[j] = b[i]})

\* C18: for every state of an open store and every outcome of the generator,
\* keys(shuffle=true) is a permutation of keys(shuffle=false), and the
\* entries with shuffle are a permutation of the entries without.
C18_ShuffleIsPermutation ==
  st = "open" =>
    \A p \in RngOutcomes(Len(dict)) :
      /\ IsPermutation(KeysCall(TRUE, p), KeysCall(FALSE, p))
      /\ IsPermutation(ItemsCall(TRUE, p), ItemsCall(FALSE, p))
      /\ \A i \in 1..Len(dict) :
           ItemsCall(TRUE, p)[i] = <<KeysCall(TRUE, p)[i], Get(KeysCall(TRUE, p)[i])>>

C18_Witness ==
  /\ st = "open"
  /\ Len(dict) = 2
  /\ dict[1].key \notin DOMAIN new_dict
  /\ dict[2].key \in DOMAIN new_dict
  /\ \E p \in RngOutcomes(2) :
       /\ KeysCall(TRUE, p) = <<dict[2].key, dict[1].key>>
       /\ ItemsCall(TRUE, p)[1][2] /= ItemsCall(TRUE, p)[2][2]

\* C19: len() and contains() agree with an abstract key set kept alongside
\* the store: a key is added when a put returns, deleted when a remove
\* returns, and a flush leaves the set as it is.
C19_LenAndContainsMatchKeySet ==
  st = "open" =>
    /\ Length = Cardinality(DOMAIN shadow)
    /\ \A k \in Keys : Contains(k) <=> k \in DOMAIN shadow

\* C20: an open with read_only=true of a path where no file exists fails with
\* NotFoundError, creates no file and no mapping, and leaves no open store.
C20_ReadOnlyOpenOfMissingFails ==
  [][(st = "closed" /\ ~exists /\ ret'.op = "open" /\ ret'.val = Mode(TRUE)) =>
       /\ ret'.res = "NotFoundError"
       /\ ~exists'
       /\ file' = file
       /\ mapLen' = 0
       /\ st' = "closed"]_vars

C20_Witness ==
  /\ st = "closed" /\ ~exists
  /\ file = <<>> /\ mapLen = 0
  /\ ret.op = "open" /\ ret.val = Mode(TRUE) /\ ret.res = "NotFoundError"

\* C21: an open, read-only or mutable, of an existing non-empty file whose
\* first bytes are not the magic marker fails with FormatError, constructs no
\* store and leaves the file's bytes as they are.
C21_BadMagicRejected ==
  [][(/\ st = "closed" /\ exists /\ Len(file) > 0
      /\ Slice(file, 0, Len(HEADER)) /= HEADER
      /\ ret'.op = "open") =>
       /\ ret'.res = "FormatError"
       /\ file' = file
       /\ exists'
       /\ st' = "closed"
       /\ mapLen' = 0]_vars

C21_Witness ==
  /\ st = "closed" /\ exists /\ Len(file) > 0
  /\ Slice(file, 0, Len(HEADER)) /= HEADER
  /\ ret.op = "open" /\ ret.val = Mode(TRUE) /\ ret.res = "FormatError"

\* C22: get(k) for a key no put has ever recorded fails with
\* KeyNotFoundError and changes nothing, in every state of an open store,
\* mutable or read-only, before and after flushes.
C22_GetOfMissingKeyFails ==
  [][/\ \A k \in Keys \ everPut : st = "open" => Get(k) = KeyError
     /\ (st = "open" /\ ret'.op = "get" /\ ret'.key \notin everPut) =>
          /\ ret'.res = "KeyNotFoundError"
          /\ ret'.val = KeyError
          /\ UNCHANGED <<exists, file, st, read_only, dict, max_position,
                         write_value, new_dict, mapLen>>]_vars

C22_Witness ==
  /\ st = "open" /\ read_only
  /\ ret.op = "get" /\ ret.res = "KeyNotFoundError"
  /\ ret.key \notin everPut
  /\ Len(dict) = 1
  /\ new_dict = EmptyMap

\* C23: a reader that opens while no flush is under way finds, for every key
\* of the index it loads, the value the writer stored; it goes on reading
\* that value while the writer buffers puts, removes keys, flushes and
\* closes, also when a later flush has written the buffered bytes and not
\* yet the index; and no call of the reader changes the file or the writer's
\* instance.
C23_ReaderSafety ==
  [][/\ (reader.st = "closed" /\ reader'.st = "open") =>
          /\ KeysOf(reader'.dict) = DOMAIN saved
          /\ \A k \in DOMAIN saved : ReaderGet(k)' = saved[k]
     /\ (reader.st = "open" /\ reader' = reader) =>
          \A k \in KeysOf(reader.dict) :
            /\ ReaderGet(k)' = ReaderGet(k)
            /\ (st = "open" /\ write_value /= <<>>) =>
                 ReaderGetIn(reader,
                             ApplyWrites(file,
                                         FlushWrites(file, dict, max_position,
                                                     write_value), 3),
                             k) = ReaderGet(k)
     /\ reader' /= reader =>
          UNCHANGED <<exists, file, st, read_only, dict, max_position,
                      write_value, new_dict, mapLen>>]_vars

C23_Witness ==
  /\ reader.st = "open"
  /\ Len(reader.dict) = 1
  /\ ReaderGet(reader.dict[1].key) = <<"int", 300>>
  /\ st = "open" /\ ret.op = "flush" /\ ret.res = "ok"
  /\ Len(file) > reader.mapLen
  /\ Len(PersistedIndex(file)) = 1
  /\ PersistedIndex(file)[1].key /= reader.dict[1].key

\* C24 as stated: flush() on a mutable store with an empty buffer and an
\* empty overlay leaves the file's bytes and the in-memory index as they
\* were, also when keys have been removed since the last flush.
C24_IdleFlushIsNoOp ==
  [][(/\ st = "open" /\ ~read_only /\ ret'.op = "flush"
      /\ write_value = <<>> /\ new_dict = EmptyMap) =>
       /\ file' = file
       /\ dict' = dict]_vars

\* C24, amended: such a flush leaves the in-memory index, the high-water
\* marks and every byte below the header's high-water mark but the index
\* length field as they were; it leaves the whole file as it was when no key
\* has been removed since the last flush; when keys have been removed it
\* rewrites the index blob and the index length, and the file's index is the
\* in-memory index afterwards.
C24_IdleFlushRewritesIndexOnly ==
  [][(/\ st = "open" /\ ~read_only /\ ret'.op = "flush"
      /\ write_value = <<>> /\ new_dict = EmptyMap) =>
       /\ dict' = dict
       /\ max_position' = max_position
       /\ OldPosition(file') = OldPosition(file)
       /\ Slice(file', HeaderSize, OldPosition(file)) =
            Slice(file, HeaderSize, OldPosition(file))
       /\ Len(file') = Len(file)
       /\ PersistedIndex(file') = dict
       /\ (dict = PersistedIndex(file)) => file' = file
       /\ (dict /= PersistedIndex(file)) => file' /= file]_vars

C24_Witness ==
  /\ st = "open" /\ ~read_only
  /\ ret.op = "flush" /\ ret.res = "ok"
  /\ Len(wlog) = 4 /\ wlog[3].len = 0
  /\ Len(dict) = 1
  /\ Len(file) > OldPosition(file) + Len(PickleDumps(dict))

\* C25: when a flush of a mutable store has completed, by flush() or by the
\* put that crossed the threshold, the header's high-water mark is the
\* previous one plus the number of buffered bytes and equals the in-memory
\* mark; the index blob starts at that mark, is as long as the header's
\* index length says and decodes to the in-memory index; the buffer and the
\* overlay are empty.
C25_FlushPostcondition ==
  [][(st = "open" /\ ~read_only /\ ret'.op \in {"flush", "put"} /\ Len(wlog') = 4) =>
       LET hwm == OldPosition(file')
           blob == PickleDumps(dict')
       IN  /\ wlog'[3].kind = "data"
           /\ hwm = OldPosition(file) + wlog'[3].len
           /\ wlog'[3].len = Len(write_value) +
                (IF ret'.op = "put" THEN Len(MarshalDumps(ret'.val)) ELSE 0)
           /\ hwm = max_position'
           /\ Recovered(file').dict_size = Len(blob)
           /\ Slice(file', hwm, hwm + Len(blob)) = blob
           /\ ReadStore(file').res = "ok"
           /\ ReadStore(file').dict = dict'
           /\ KeysOf(dict') = KeysOf(dict) \cup
                (IF ret'.op = "put" THEN {ret'.key} ELSE {})
           /\ write_value' = <<>>
           /\ new_dict' = EmptyMap]_vars

C25_Witness ==
  /\ st = "open" /\ ~read_only
  /\ ret.op = "flush" /\ ret.res = "ok"
  /\ Len(wlog) = 4 /\ wlog[3].len > 1
  /\ OldPosition(file) - wlog[3].len > HeaderSize
  /\ Len(dict) = 2

\* C26: a put that records its entry gives it the length of the encoded
\* value and the offset of the header's high-water mark plus the bytes
\* buffered since the last flush; and in every state of an open store the
\* in-memory high-water mark is the header's plus the buffer's length.
C26_PendingOffsets ==
  [][/\ (st = "open" /\ ret'.op = "put" /\ ret'.res = "ok") =>
          /\ HasKey(dict', ret'.key)
          /\ Lookup(dict', ret'.key).start = OldPosition(file) + Len(write_value)
          /\ Lookup(dict', ret'.key).size = Len(MarshalDumps(ret'.val))
     /\ st' = "open" =>
          max_position' = OldPosition(file') + Len(write_value')]_vars

C26_Witness ==
  /\ st = "open" /\ ~read_only
  /\ ret.op = "put" /\ ret.res = "ok"
  /\ wlog = <<>>
  /\ Len(write_value) > Lookup(dict, ret.key).size
  /\ OldPosition(file) > HeaderSize
  /\ Lookup(dict, ret.key).start > OldPosition(file)

\* C27: a completed flush, by flush() or by the put that crossed the
\* threshold, preserves reads: every key present before it reads the same
\* value after it, and the file then holds, at the key's entry, the encoded
\* bytes the overlay held.
C27_FlushPreservesReads ==
  [][(st = "open" /\ ~read_only /\ ret'.op \in {"flush", "put"} /\ Len(wlog') = 4) =>
       /\ \A k \in Keys :
            Contains(k) =>
              /\ Contains(k)'
              /\ Get(k)' = Get(k)
              /\ DiskGet(file', k) = Get(k)
              /\ k \in DOMAIN new_dict =>
                   LET e == Lookup(dict', k)
                   IN  Slice(file', e.start, e.start + e.size) = new_dict[k]
       /\ \A k \in Keys :
            (ret'.op = "put" /\ ret'.key = k) =>
              /\ Get(k)' = ret'.val
              /\ LET e == Lookup(dict', k)
                 IN  Slice(file', e.start, e.start + e.size) = MarshalDumps(ret'.val)]_vars

C27_Witness ==
  /\ st = "open" /\ ~read_only
  /\ ret.op = "flush" /\ ret.res = "ok"
  /\ Len(wlog) = 4 /\ wlog[3].len = FlushThreshold
  /\ Len(dict) = 1
  /\ Get(dict[1].key) = <<"int", 300>>

\* C28: an open that creates the store writes a file that is consistent and
\* empty: the magic marker, a high-water mark equal to the size of the
\* header (the marker and the two fields), an index length equal to the
\* length of the pickled empty index, that blob at the mark and nothing
\* else; the instance and any reopen of the file have length 0.
C28_NewStoreIsConsistent ==
  [][(/\ st = "closed" /\ ~(exists /\ Len(file) > 0)
      /\ ret'.op = "open" /\ ret'.res = "ok") =>
       LET blob == PickleDumps(<<>>)
       IN  /\ exists'
           /\ Slice(file', 0, Len(HEADER)) = HEADER
           /\ OldPosition(file') = Len(HEADER) + 2 * SIZE_BYTES
           /\ Recovered(file').dict_size = Len(blob)
           /\ Slice(file', OldPosition(file'), OldPosition(file') + Len(blob)) = blob
           /\ Len(file') = Len(HEADER) + 2 * SIZE_BYTES + Len(blob)
           /\ ReadStore(file').res = "ok"
           /\ ReadStore(file').dict = <<>>
           /\ max_position' = OldPosition(file')
           /\ Length' = 0]_vars

C28_Witness ==
  /\ st = "open" /\ read_only
  /\ ret.op = "open" /\ ret.res = "ok"
  /\ Length = 0
  /\ file = HEADER \o FormatField(104, SIZE_BYTES) \o FormatField(3, SIZE_BYTES)
                   \o <<128, 2, 46>>
  /\ everPut = {}

\* C29: remove(k) reclaims nothing: it leaves the in-memory and the header's
\* high-water mark, the write buffer and every byte of the file as they
\* were, so the next put gets the offset it would have got without it.
C29_RemoveReclaimsNothing ==
  [][(st = "open" /\ ret'.op = "remove") =>
       /\ file' = file
       /\ max_position' = max_position
       /\ OldPosition(file') = OldPosition(file)
       /\ write_value' = write_value
       /\ mapLen' = mapLen
       /\ \A k \in Keys, v \in Values :
            Marshallable(v) => NewEntry(k, MarshalDumps(v))' = NewEntry(k, MarshalDumps(v))]_vars

C29_Witness ==
  /\ st = "open" /\ ~read_only
  /\ ret.op = "remove" /\ ret.res = "ok"
  /\ ret.key \in DOMAIN new_dict
  /\ write_value /= <<>>
  /\ max_position > OldPosition(file)
  /\ OldPosition(file) > HeaderSize

\* C30: on a mutable store a put of a key that was put before and has been
\* removed, flushed or pending, succeeds, gets fresh bytes at the in-memory
\* high-water mark and is what get returns; and get returns the value last
\* put for every present key in every state, so also after a flush and
\* after close and reopen.
C30_ReinsertAfterRemove ==
  [][/\ \A k \in Keys :
          (/\ st = "open" /\ ~read_only
           /\ (k \in everPut \/ (ret.op = "remove" /\ ret.res = "ok" /\ ret.key = k))
           /\ ~Contains(k)
           /\ ret'.op = "put" /\ ret'.key = k /\ Marshallable(ret'.val)) =>
            /\ ret'.res = "ok"
            /\ Contains(k)'
            /\ Lookup(dict', k).start = max_position
            /\ \A i \in 1..Len(dict) : dict[i].start + dict[i].size <= max_position
            /\ Get(k)' = ret'.val
     /\ (st' = "open" /\ ~read_only') =>
          \A k \in Keys : Contains(k)' => (k \in DOMAIN shadow' /\ Get(k)' = shadow'[k])]_vars

C30_Witness ==
  /\ st = "open" /\ ~read_only
  /\ ret.op = "put" /\ ret.res = "ok" /\ wlog = <<>>
  /\ ret.key \in KeysOf(PersistedIndex(file))
  /\ Get(ret.key) = ret.val
  /\ DiskGet(file, ret.key) /= ret.val
  /\ Lookup(dict, ret.key).start >= OldPosition(file)

\* C31: a remove becomes durable at the next flush.  When a flush of a
\* mutable store completes, by flush(), by close() or by the put that crossed
\* the threshold, a key of the file's index that has been removed is no
\* longer in the file's index, and every key of the file's index whose entry
\* is still in the in-memory index keeps its value in the file; an open then
\* has exactly the keys of the file's index.
C31_RemoveDurableAtFlush ==
  [][/\ (st = "open" /\ ~read_only /\ ret'.op \in {"flush", "close", "put"}
         /\ Len(wlog') = 4) =>
          \A k \in KeysOf(PersistedIndex(file)) :
            IF HasKey(dict, k) /\ Lookup(dict, k) = Lookup(PersistedIndex(file), k)
              THEN DiskGet(file', k) = DiskGet(file, k)
            ELSE IF ~HasKey(dict, k) /\ ~(ret'.op = "put" /\ ret'.key = k)
              THEN /\ DiskGet(file', k) = KeyError
                   /\ k \notin KeysOf(PersistedIndex(file'))
            ELSE TRUE
     /\ (st = "closed" /\ st' = "open") =>
          \A k \in Keys : Contains(k)' <=> k \in KeysOf(PersistedIndex(file'))]_vars

C31_Witness ==
  /\ st = "open" /\ read_only
  /\ ret.op = "open" /\ ret.res = "ok"
  /\ Len(dict) = 1
  /\ Get(dict[1].key) = <<"int", 300>>
  /\ Cardinality(everPut) = 2
  /\ Len(file) > OldPosition(file) + Len(PickleDumps(dict))

\* C32: in every state of an open store the byte ranges
\* [offset, offset + length) of two different entries of the in-memory index
\* do not meet, and no entry is empty.
C32_RecordsDisjoint ==
  st = "open" =>
    \A i, j \in 1..Len(dict) :
      /\ dict[i].size > 0
      /\ i /= j =>
           /\ dict[i].key /= dict[j].key
           /\ \/ dict[i].start + dict[i].size <= dict[j].start
              \/ dict[j].start + dict[j].size <= dict[i].start

C32_Witness ==
  /\ st = "open" /\ ~read_only
  /\ Len(dict) = 2
  /\ dict[1].key \notin DOMAIN new_dict
  /\ dict[2].key \in DOMAIN new_dict
  /\ dict[2].key \in KeysOf(PersistedIndex(file))
  /\ dict[1].start + dict[1].size < dict[2].start

\* C33: items(shuffle=False) yields one pair for every key of keys(), in the
\* order of keys(), and the pair's value is what get returns for the key,
\* be the key's bytes in the overlay or in the mapped file; on a mutable
\* store that value is the value last put.
C33_ItemsFollowKeys ==
  st = "open" =>
    LET it == ItemsCall(FALSE, <<>>)
        ks == KeysCall(FALSE, <<>>)
    IN  /\ Len(it) = Len(ks)
        /\ \A i \in 1..Len(ks) :
             /\ it[i] = <<ks[i], Get(ks[i])>>
             /\ ~read_only => it[i][2] = shadow[ks[i]]
        /\ \A i, j \in 1..Len(it) : it[i][1] = it[j][1] => i = j
        /\ {it[i][1] : i \in 1..Len(it)} = {k \in Keys : Contains(k)}

C33_Witness ==
  /\ st = "open" /\ ~read_only
  /\ Len(dict) = 2
  /\ dict[1].key \notin DOMAIN new_dict
  /\ dict[2].key \in DOMAIN new_dict
  /\ ItemsCall(FALSE, <<>>) = <<<<98, None>>, <<97, <<"int", 300>>>>>>

\* C34: an existing file of length zero is treated as a missing one: a
\* mutable open writes the magic marker, the header of an empty store and
\* the empty index into it and constructs an empty store; a read-only open
\* fails with NotFoundError and leaves the file at length zero.
C34_EmptyFileIsMissingFile ==
  [][(st = "closed" /\ exists /\ Len(file) = 0 /\ ret'.op = "open") =>
       IF ret'.val = Mode(TRUE)
         THEN /\ ret'.res = "NotFoundError"
              /\ exists' /\ file' = <<>>
              /\ st' = "closed" /\ mapLen' = 0
         ELSE /\ ret'.res = "ok"
              /\ exists'
              /\ file' = HEADER \o FormatField(Len(HEADER) + 2 * SIZE_BYTES, SIZE_BYTES)
                                \o FormatField(Len(PickleDumps(<<>>)), SIZE_BYTES)
                                \o PickleDumps(<<>>)
              /\ ReadStore(file').res = "ok"
              /\ st' = "open" /\ ~read_only'
              /\ Length' = 0
              /\ max_position' = Len(HEADER) + 2 * SIZE_BYTES
              /\ mapLen' = Len(file')]_vars

C34_Witness ==
  /\ st = "closed" /\ exists /\ file = <<>>
  /\ ret.op = "open" /\ ret.val = Mode(TRUE) /\ ret.res = "NotFoundError"

DictIterKeys(args) ==
  IF Len(args) = 0 THEN [res |-> "ok", keys |-> KeysInOrder]
  ELSE [res |-> "TypeError", keys |-> <<>>]

\* values(shuffle): list(self.itervalues(shuffle)); itervalues hands shuffle
\* to self._dict.iterkeys and yields self[k] for the keys it gets.
ValuesCall(shuffle) ==
  LET it == DictIterKeys(<<shuffle>>)
  IN  IF it.res /= "ok" THEN [res |-> it.res, val |-> <<>>]
      ELSE [res |-> "ok", val |-> [i \in 1..Len(it.keys) |-> Get(it.keys[i])]]

\* C36: values(shuffle) completes without error in every state of an open
\* store and returns the value get(k) of every key; when shuffle is false
\* in the order of keys().
C36_ValuesFollowKeys ==
  st = "open" =>
    \A shuffle \in BOOLEAN :
      LET v == ValuesCall(shuffle)
      IN  /\ v.res = "ok"
          /\ IsPermutation(v.val, [i \in 1..Len(KeysInOrder) |-> Get(KeysInOrder[i])])
          /\ ~shuffle => v.val = [i \in 1..Len(KeysInOrder) |-> Get(KeysInOrder[i])]

====
